---- MODULE Spec2Model ----
(***************************************************************************)
(* Master/worker word count over MPI (main.c).  Rank 0 is the coordinator: *)
(* it owns file_list and global_histogram, primes every worker with one    *)
(* message, then serves TAG_PROCESSED_FILE_ACK signals one at a time.      *)
(* Ranks 1..size-1 are workers: each receives tasks, tokenizes the file,   *)
(* merges into local_histogram and sends the histogram on termination.     *)
(*                                                                         *)
(* Strings are sequences of byte values.  Every MPI call is one step of    *)
(* the calling process.  MPI_Send in standard mode may return as soon as   *)
(* the message is buffered or only once the matching receive has started;  *)
(* sendMode ranges over both.                                              *)
(*                                                                         *)
(* Spec and FairSpec are the program; TruncSpec is the program on files    *)
(* with words of MAX_WORD_LEN bytes and more.  MergeSpec, HistSpec,        *)
(* TokenSpec and LoaderSpec apply merge_histograms, the histogram calls,   *)
(* count_words_in_file and the filelist.txt loader to inputs of their own. *)
(***************************************************************************)
EXTENDS Integers, Sequences, FiniteSets, TLC

\* ---------------------------------------------------------------- bounds
MaxWorkers == 2
MaxFiles == 3
MaxTokens == 3

\* ----------------------------------------------------- program constants
MAX_FILES == 100
MAX_WORD_LEN == 100
INITIAL_HIST_CAPACITY == 64
TAG_TASK == 0
TAG_PROCESSED_FILE_ACK == 1
TAG_END_OF_TASKS_SEND_HISTOGRAM == 2
TAG_HISTOGRAM_DATA_COUNT == 3
TAG_HISTOGRAM_DATA_WORD == 4
TAG_HISTOGRAM_DATA_FREQ == 5

\* ------------------------------------------------------------ the inputs
\* A pointer is a sequence of zero (NULL) or one (the object) elements.
NULL == <<>>

\* A word of MAX_WORD_LEN - 1 letters, "abab...a", and the same in capitals.
LongPrefix == [i \in 1..(MAX_WORD_LEN - 1) |-> IF i % 2 = 1 THEN 97 ELSE 98]

LongPrefixCapitals == [i \in 1..(MAX_WORD_LEN - 1) |-> LongPrefix[i] - 32]

\* The readable files on disk, as bytes:
\*   f1: "a b A"    f2: "B.a"
\*   long1: "ABAB...AXY", one word of MAX_WORD_LEN + 1 capitals
\*   long2: "abab...ayz b.abab...a0", two words of MAX_WORD_LEN + 1 and
\*          MAX_WORD_LEN bytes around a short one
Disk == [f1 |-> <<97, 32, 98, 32, 65>>, f2 |-> <<66, 46, 97>>,
         long1 |-> LongPrefixCapitals \o <<88, 89>>,
         long2 |-> LongPrefix \o <<121, 122, 32, 98, 46>> \o LongPrefix \o <<48>>]

\* Paths that may appear in filelist.txt; "missing" cannot be opened.
Paths == {"f1", "f2", "missing"}

\* The paths of the files with long words.
LongPaths == {"long1", "long2"}

\* ------------------------------------------------------------- <ctype.h>
isalnum(c) == (c >= 48 /\ c <= 57) \/ (c >= 65 /\ c <= 90) \/ (c >= 97 /\ c <= 122)

tolower(c) == IF c >= 65 /\ c <= 90 THEN c + 32 ELSE c

\* ------------------------------------------------------------ <string.h>
\* Byte i (1-based) of a NUL-terminated string: 0 at and after its end.
CharAt(s, i) == IF i <= Len(s) THEN s[i] ELSE 0

\* The comparison loop of strncmp on two strings: the difference of the
\* bytes at the first position, among the first n, where the strings differ
\* or a ends; 0 if there is none.
FirstDifference(a, b, n) ==
    LET last == IF n <= Len(a) THEN n ELSE Len(a) + 1
        stop == {i \in 1..last : CharAt(a, i) # CharAt(b, i) \/ CharAt(a, i) = 0}
    IN  IF stop = {} THEN 0
        ELSE LET k == CHOOSE i \in stop : \A j \in stop : i <= j
             IN  CharAt(a, k) - CharAt(b, k)

\* strncmp(a, b, n), with its arguments evaluated once.
strncmp(a, b, n) ==
    CHOOSE d \in {FirstDifference(x, y, n) : x \in {a}, y \in {b}} : TRUE

\* strncpy(dst, src, n) followed by dst[n] = '\0': at most n bytes of src.
strncpy(src, n) == IF Len(src) <= n THEN src ELSE SubSeq(src, 1, n)

\* ------------------------------------------------------------- Histogram
\* items holds the count used slots of the array, in array order.
init_histogram == [items |-> <<>>, count |-> 0, capacity |-> INITIAL_HIST_CAPACITY]

\* Faulty variant: the array is never reallocated.
ensure_capacity_NoGrow(hist, min_capacity) == hist

ensure_capacity(hist, min_capacity) ==
    IF hist.capacity < min_capacity
    THEN LET doubled == hist.capacity * 2
             new_capacity == IF doubled < min_capacity THEN min_capacity ELSE doubled
         IN  [hist EXCEPT !.capacity = new_capacity]
    ELSE hist

\* Index of the first entry of items whose word equals word_str, 0 if none.
RECURSIVE FindWordFrom(_, _, _)
FindWordFrom(items, word_str, i) ==
    IF i > Len(items) THEN 0
    ELSE IF strncmp(items[i].word, word_str, MAX_WORD_LEN) = 0 THEN i
    ELSE FindWordFrom(items, word_str, i + 1)

FindWord(items, word_str) == FindWordFrom(items, word_str, 1)

\* Append a new entry, as both add_word_to_histogram and merge_histograms do.
AppendEntry(hist, word_str, freq) ==
    LET grown == ensure_capacity(hist, hist.count + 1)
    IN  [grown EXCEPT !.items = Append(hist.items,
                                   [word |-> strncpy(word_str, MAX_WORD_LEN - 1),
                                    frequency |-> freq]),
                      !.count = hist.count + 1]

\* Faulty variant: a word already present is not counted again.
add_word_to_histogram_NoIncrement(hist, word_str) ==
    LET i == FindWord(SubSeq(hist.items, 1, hist.count), word_str)
    IN  IF i # 0 THEN hist ELSE AppendEntry(hist, word_str, 1)

add_word_to_histogram(hist, word_str) ==
    LET i == FindWord(SubSeq(hist.items, 1, hist.count), word_str)
    IN  IF i # 0
        THEN [hist EXCEPT !.items[i].frequency = @ + 1]
        ELSE AppendEntry(hist, word_str, 1)

\* Faulty variant: the frequency of a word already present is overwritten.
MergeEntry_Overwrite(dest_hist, entry) ==
    LET j == FindWord(SubSeq(dest_hist.items, 1, dest_hist.count), entry.word)
    IN  IF j # 0
        THEN [dest_hist EXCEPT !.items[j].frequency = entry.frequency]
        ELSE AppendEntry(dest_hist, entry.word, entry.frequency)

\* Faulty variant: a word already present is incremented by one, whatever the
\* frequency of the source entry.
MergeEntry_Increment(dest_hist, entry) ==
    LET j == FindWord(SubSeq(dest_hist.items, 1, dest_hist.count), entry.word)
    IN  IF j # 0
        THEN [dest_hist EXCEPT !.items[j].frequency = @ + 1]
        ELSE AppendEntry(dest_hist, entry.word, entry.frequency)

\* One iteration of the outer loop of merge_histograms.
MergeEntry(dest_hist, entry) ==
    LET j == FindWord(SubSeq(dest_hist.items, 1, dest_hist.count), entry.word)
    IN  IF j # 0
        THEN [dest_hist EXCEPT !.items[j].frequency = @ + entry.frequency]
        ELSE AppendEntry(dest_hist, entry.word, entry.frequency)

RECURSIVE MergeFrom(_, _, _)
MergeFrom(dest_hist, source_hist, i) ==
    IF i > source_hist.count THEN dest_hist
    ELSE MergeFrom(MergeEntry(dest_hist, source_hist.items[i]), source_hist, i + 1)

merge_histograms(dest_hist, source_hist) == MergeFrom(dest_hist, source_hist, 1)

free_histogram_content == [items |-> <<>>, count |-> 0, capacity |-> 0]

compare_wordfreq(a, b) == strncmp(a.word, b.word, MAX_WORD_LEN)

\* qsort with compare_wordfreq: entries in ascending order of the comparison.
RECURSIVE InsertSorted(_, _)
InsertSorted(sorted, e) ==
    IF sorted = <<>> THEN <<e>>
    ELSE IF compare_wordfreq(e, Head(sorted)) < 0 THEN <<e>> \o sorted
    ELSE <<Head(sorted)>> \o InsertSorted(Tail(sorted), e)

RECURSIVE SortItems(_)
SortItems(items) ==
    IF items = <<>> THEN <<>>
    ELSE InsertSorted(SortItems(SubSeq(items, 1, Len(items) - 1)), items[Len(items)])

\* Faulty variant: the histogram is written in insertion order.
sort_histogram_by_word_Unsorted(hist) == hist

sort_histogram_by_word(hist) ==
    IF hist.count > 0 THEN [hist EXCEPT !.items = SortItems(hist.items)] ELSE hist

\* printf("%d") of a non-negative int, as bytes.
RECURSIVE Decimal(_)
Decimal(n) == IF n < 10 THEN <<48 + n>> ELSE Decimal(n \div 10) \o <<48 + (n % 10)>>

\* Lines of the CSV file: the header, then "%s,%d" per entry.
RECURSIVE CsvRows(_)
CsvRows(items) ==
    IF items = <<>> THEN <<>>
    ELSE <<Head(items).word \o <<44>> \o Decimal(Head(items).frequency)>> \o CsvRows(Tail(items))

write_histogram_to_csv(hist) == <<"word,frequency">> \o CsvRows(SubSeq(hist.items, 1, hist.count))

\* ------------------------------------------------------------- Tokenizer
\* Faulty variant: when current_word is full the token is counted and the
\* byte starts a new token.
TokenStep_SplitLong(hist, cw, c) ==
    IF isalnum(c)
    THEN IF Len(cw) < MAX_WORD_LEN - 1
         THEN [hist |-> hist, cw |-> Append(cw, tolower(c))]
         ELSE [hist |-> add_word_to_histogram(hist, cw), cw |-> <<tolower(c)>>]
    ELSE IF Len(cw) > 0
         THEN [hist |-> add_word_to_histogram(hist, cw), cw |-> <<>>]
         ELSE [hist |-> hist, cw |-> cw]

\* One iteration of the fgetc loop of count_words_in_file on byte c: hist is
\* the histogram so far, cw is current_word (its first char_idx bytes).
TokenStep(hist, cw, c) ==
    IF isalnum(c)
    THEN IF Len(cw) < MAX_WORD_LEN - 1
         THEN [hist |-> hist, cw |-> Append(cw, tolower(c))]
         ELSE [hist |-> hist, cw |-> cw]
    ELSE IF Len(cw) > 0
         THEN [hist |-> add_word_to_histogram(hist, cw), cw |-> <<>>]
         ELSE [hist |-> hist, cw |-> cw]

\* Faulty variant: a token pending at the end of the file is dropped.
TokenEnd_DropPending(hist, cw) == hist

\* After the loop: the token pending at the end of the file.
TokenEnd(hist, cw) == IF Len(cw) > 0 THEN add_word_to_histogram(hist, cw) ELSE hist

\* The iterations of the loop for bytes lo..hi, from the state st of hist
\* and current_word: those for the first half, then those for the second.
RECURSIVE TokenLoop(_, _, _, _)
TokenLoop(bytes, lo, hi, st) ==
    IF lo > hi THEN st
    ELSE IF lo = hi THEN TokenStep(st.hist, st.cw, bytes[lo])
    ELSE LET mid == (lo + hi) \div 2
         IN  CHOOSE after \in {TokenLoop(bytes, mid + 1, hi, half) :
                                  half \in {TokenLoop(bytes, lo, mid, st)}} : TRUE

\* The loop from byte i on, and what follows it.
TokenizeFrom(bytes, i, hist, cw) ==
    LET st == TokenLoop(bytes, i, Len(bytes), [hist |-> hist, cw |-> cw])
    IN  TokenEnd(st.hist, st.cw)

\* The histogram count_words_in_file builds for each readable file; it depends
\* on the file's bytes only.
FileHistogram == [p \in DOMAIN Disk |-> TokenizeFrom(Disk[p], 1, init_histogram, <<>>)]

count_words_in_file(filename) ==
    IF filename \notin DOMAIN Disk THEN NULL
    ELSE <<FileHistogram[filename]>>

\* ----------------------------------------------------------------- state
VARIABLES
    sendMode,           \* "eager" or "rendezvous": when MPI_Send returns
    size,               \* MPI_Comm_size
    file_list,          \* the paths loaded from filelist.txt
    cpc,                \* rank 0: position in main
    worker_rank,        \* rank 0: priming loop variable
    next_file_idx,      \* rank 0: dispatch cursor (0-based)
    workers_finished_and_sent_histograms,
    sender_rank,        \* rank 0: status.MPI_SOURCE of the last ack
    num_unique_words,   \* rank 0: count received in the current drain
    received_hist,      \* rank 0: histogram being received
    single_i,           \* rank 0: loop variable of single process mode
    global_histogram,
    report,             \* lines of word_frequencies.csv, <<>> until written
    wpc,                \* worker: position in main
    local_histogram,    \* worker: local_histogram
    task_filename,      \* worker: buffer of the last received message
    send_i,             \* worker: loop variable of the histogram send
    toWorker,           \* messages sent by rank 0 to each worker, not yet received
    toCoord,            \* messages sent by each worker to rank 0, not yet received
    clog,               \* history: MPI calls of rank 0, in program order
    wlog,               \* history: MPI calls of each worker, in program order
    fn_in,              \* arguments of a function checked on its own
    fn_out              \* its results, <<>> until computed

vars == <<sendMode, size, file_list, cpc, worker_rank, next_file_idx,
          workers_finished_and_sent_histograms, sender_rank, num_unique_words,
          received_hist, single_i, global_histogram, report, wpc,
          local_histogram, task_filename, send_i, toWorker, toCoord, clog, wlog,
          fn_in, fn_out>>

coordVars == <<cpc, worker_rank, next_file_idx, workers_finished_and_sent_histograms,
               sender_rank, num_unique_words, received_hist, single_i,
               global_histogram, report, clog>>

workerVars == <<wpc, local_histogram, task_filename, send_i, wlog>>

\* What no step of the program changes.
inputVars == <<sendMode, size, file_list, fn_in, fn_out>>

num_workers == size - 1
total_files == Len(file_list)
Workers == 1..num_workers

RECURSIVE SeqsUpTo(_, _)
SeqsUpTo(S, n) ==
    IF n = 0 THEN {<<>>}
    ELSE LET shorter == SeqsUpTo(S, n - 1)
         IN  shorter \cup {Append(q, x) : q \in {r \in shorter : Len(r) = n - 1}, x \in S}

Msg(tag, data) == [tag |-> tag, data |-> data]

\* Position of the first message of q carrying tag, 0 if none: the message a
\* receive with that tag matches.
RECURSIVE FirstWithTagFrom(_, _, _)
FirstWithTagFrom(q, tag, i) ==
    IF i > Len(q) THEN 0
    ELSE IF q[i].tag = tag THEN i
    ELSE FirstWithTagFrom(q, tag, i + 1)

\* Faulty variant: the latest message with the tag overtakes earlier ones.
FirstWithTag_Latest(q, tag) ==
    IF \E i \in DOMAIN q : q[i].tag = tag
    THEN CHOOSE i \in DOMAIN q : q[i].tag = tag /\ \A j \in DOMAIN q : q[j].tag = tag => j <= i
    ELSE 0

FirstWithTag(q, tag) == FirstWithTagFrom(q, tag, 1)

RemoveAt(q, i) == SubSeq(q, 1, i - 1) \o SubSeq(q, i + 1, Len(q))

\* The last MPI_Send of rank 0 / of worker w has returned.
CoordSendDone == sendMode = "eager" \/ \A w \in Workers : toWorker[w] = <<>>
WorkerSendDone(w) == sendMode = "eager" \/ toCoord[w] = <<>>

\* The while condition of the reactive loop.
\* Faulty variant: the loop stops one worker early.
LoopHead_EarlyExit(finished) == IF finished + 1 < num_workers THEN "recvAck" ELSE "finalize"

LoopHead(finished) == IF finished < num_workers THEN "recvAck" ELSE "finalize"

\* Faulty variant: the last file of the list is never handed out.
FilesLeft_OffByOne == next_file_idx + 1 < total_files

\* The while/if condition next_file_idx < total_files.
FilesLeft == next_file_idx < total_files

\* Faulty variant: the cursor is not advanced.
CursorAfterSend_Stuck == next_file_idx

\* next_file_idx++ after a file has been sent.
CursorAfterSend == next_file_idx + 1

\* Faulty variant: the reply goes to the first worker, whoever sent the ack.
StatusSource_First(w) == 1

\* status.MPI_SOURCE after a receive matched a message of worker w.
StatusSource(w) == w

\* Faulty variant: every message is taken for the termination signal.
IsTerminate_Always(m) == TRUE

\* The test status.MPI_TAG == TAG_END_OF_TASKS_SEND_HISTOGRAM of the worker.
IsTerminate(m) == m.tag = TAG_END_OF_TASKS_SEND_HISTOGRAM

\* The state of all processes after MPI_Init, the load of filelist.txt and
\* the init_histogram calls, for a launch with sz processes.
ProgramStart(mode, sz, files) ==
    /\ sendMode = mode
    /\ size = sz
    /\ file_list = files
    /\ cpc = IF sz = 1 THEN "single" ELSE "prime"
    /\ worker_rank = 1
    /\ next_file_idx = 0
    /\ workers_finished_and_sent_histograms = 0
    /\ sender_rank = 0
    /\ num_unique_words = 0
    /\ received_hist = free_histogram_content
    /\ single_i = 0
    /\ global_histogram = init_histogram
    /\ report = <<>>
    /\ wpc = [w \in 1..(sz - 1) |-> "recv"]
    /\ local_histogram = [w \in 1..(sz - 1) |-> init_histogram]
    /\ task_filename = [w \in 1..(sz - 1) |-> ""]
    /\ send_i = [w \in 1..(sz - 1) |-> 0]
    /\ toWorker = [w \in 1..(sz - 1) |-> <<>>]
    /\ toCoord = [w \in 1..(sz - 1) |-> <<>>]
    /\ clog = <<>>
    /\ wlog = [w \in 1..(sz - 1) |-> <<>>]

Init ==
    /\ \E mode \in {"eager", "rendezvous"}, sz \in 1..(MaxWorkers + 1),
          files \in SeqsUpTo(Paths, MaxFiles) : ProgramStart(mode, sz, files)
    /\ fn_in = <<>>
    /\ fn_out = <<>>

\* ---------------------------------------------------------------- rank 0
\* An MPI call of rank 0 in the history; idx is the position in file_list of
\* the file a task message carries, -1 for every other message.
CEvent(op, w, tag, data, idx) == [op |-> op, peer |-> w, tag |-> tag, data |-> data, idx |-> idx]

TaskEvent(w) == CEvent("send", w, TAG_TASK, file_list[next_file_idx + 1], next_file_idx)

TerminateEvent(w) == CEvent("send", w, TAG_END_OF_TASKS_SEND_HISTOGRAM, "", -1)

\* Single process mode: one iteration of the loop over the files.
SingleFile ==
    /\ cpc = "single"
    /\ single_i < total_files
    /\ LET file_hist == count_words_in_file(file_list[single_i + 1])
       IN  global_histogram' = IF file_hist # NULL
                               THEN merge_histograms(global_histogram, file_hist[1])
                               ELSE global_histogram
    /\ single_i' = single_i + 1
    /\ UNCHANGED <<inputVars, cpc, worker_rank, next_file_idx,
                   workers_finished_and_sent_histograms, sender_rank, num_unique_words,
                   received_hist, report, clog, workerVars, toWorker, toCoord>>

SingleDone ==
    /\ cpc = "single"
    /\ single_i >= total_files
    /\ cpc' = "finalize"
    /\ UNCHANGED <<inputVars, worker_rank, next_file_idx,
                   workers_finished_and_sent_histograms, sender_rank, num_unique_words,
                   received_hist, single_i, global_histogram, report, clog,
                   workerVars, toWorker, toCoord>>

\* One iteration of the priming loop.
Prime ==
    /\ cpc = "prime"
    /\ worker_rank <= num_workers
    /\ CoordSendDone
    /\ IF FilesLeft
       THEN /\ toWorker' = [toWorker EXCEPT ![worker_rank] =
                               Append(@, Msg(TAG_TASK, file_list[next_file_idx + 1]))]
            /\ clog' = Append(clog, TaskEvent(worker_rank))
            /\ next_file_idx' = CursorAfterSend
       ELSE /\ toWorker' = [toWorker EXCEPT ![worker_rank] =
                               Append(@, Msg(TAG_END_OF_TASKS_SEND_HISTOGRAM, ""))]
            /\ clog' = Append(clog, TerminateEvent(worker_rank))
            /\ UNCHANGED next_file_idx
    /\ worker_rank' = worker_rank + 1
    /\ cpc' = IF worker_rank + 1 <= num_workers
              THEN "prime"
              ELSE LoopHead(workers_finished_and_sent_histograms)
    /\ UNCHANGED <<inputVars, workers_finished_and_sent_histograms, sender_rank,
                   num_unique_words, received_hist, single_i, global_histogram,
                   report, workerVars, toCoord>>

\* MPI_Recv(MPI_ANY_SOURCE, TAG_PROCESSED_FILE_ACK) from worker w.
CRecvAck(w) ==
    LET k == FirstWithTag(toCoord[w], TAG_PROCESSED_FILE_ACK)
    IN  /\ k # 0
        /\ toCoord' = [toCoord EXCEPT ![w] = RemoveAt(@, k)]
        /\ sender_rank' = StatusSource(w)

AckEvent(w) ==
    CEvent("recv", w, TAG_PROCESSED_FILE_ACK,
           toCoord[w][FirstWithTag(toCoord[w], TAG_PROCESSED_FILE_ACK)].data, -1)

\* One iteration of the reactive loop with files left: receive an ack and
\* send its sender the next file.
DispatchTask ==
    /\ cpc = "recvAck"
    /\ CoordSendDone
    /\ FilesLeft
    /\ \E w \in Workers :
         /\ CRecvAck(w)
         /\ toWorker' = [toWorker EXCEPT ![sender_rank'] =
                            Append(@, Msg(TAG_TASK, file_list[next_file_idx + 1]))]
         /\ clog' = clog \o <<AckEvent(w), TaskEvent(sender_rank')>>
    /\ next_file_idx' = CursorAfterSend
    /\ cpc' = LoopHead(workers_finished_and_sent_histograms)
    /\ UNCHANGED <<inputVars, worker_rank, workers_finished_and_sent_histograms,
                   num_unique_words, received_hist, single_i, global_histogram,
                   report, workerVars>>

\* One iteration of the reactive loop with no file left, up to the send:
\* receive an ack and send its sender the termination signal.
DispatchTerminate ==
    /\ cpc = "recvAck"
    /\ CoordSendDone
    /\ ~FilesLeft
    /\ \E w \in Workers :
         /\ CRecvAck(w)
         /\ toWorker' = [toWorker EXCEPT ![sender_rank'] =
                            Append(@, Msg(TAG_END_OF_TASKS_SEND_HISTOGRAM, ""))]
         /\ clog' = clog \o <<AckEvent(w), TerminateEvent(sender_rank')>>
    /\ cpc' = "recvCount"
    /\ UNCHANGED <<inputVars, worker_rank, next_file_idx,
                   workers_finished_and_sent_histograms, num_unique_words,
                   received_hist, single_i, global_histogram, report, workerVars>>

\* MPI_Recv(sender_rank, tag): take the first message of that worker with tag.
CRecvFrom(tag, k) ==
    /\ k # 0
    /\ toCoord' = [toCoord EXCEPT ![sender_rank] = RemoveAt(@, k)]
    /\ clog' = Append(clog, CEvent("recv", sender_rank, tag,
                                    toCoord[sender_rank][k].data, -1))

RecvCount ==
    /\ cpc = "recvCount"
    /\ CoordSendDone
    /\ LET k == FirstWithTag(toCoord[sender_rank], TAG_HISTOGRAM_DATA_COUNT)
       IN  /\ CRecvFrom(TAG_HISTOGRAM_DATA_COUNT, k)
           /\ num_unique_words' = toCoord[sender_rank][k].data
    /\ IF num_unique_words' > 0
       THEN /\ received_hist' = [items |-> <<>>, count |-> num_unique_words',
                                 capacity |-> num_unique_words']
            /\ cpc' = "recvWord"
            /\ UNCHANGED workers_finished_and_sent_histograms
       ELSE /\ workers_finished_and_sent_histograms' =
                   workers_finished_and_sent_histograms + 1
            /\ cpc' = LoopHead(workers_finished_and_sent_histograms + 1)
            /\ UNCHANGED received_hist
    /\ UNCHANGED <<inputVars, worker_rank, next_file_idx, sender_rank, single_i,
                   global_histogram, report, workerVars, toWorker>>

\* MPI_Recv into received_hist.items[i].word; the slot's frequency is not
\* written yet (and not read before RecvFreq writes it).
RecvWord ==
    /\ cpc = "recvWord"
    /\ LET k == FirstWithTag(toCoord[sender_rank], TAG_HISTOGRAM_DATA_WORD)
       IN  /\ CRecvFrom(TAG_HISTOGRAM_DATA_WORD, k)
           /\ received_hist' = [received_hist EXCEPT !.items =
                  Append(@, [word |-> toCoord[sender_rank][k].data, frequency |-> 0])]
    /\ cpc' = "recvFreq"
    /\ UNCHANGED <<inputVars, worker_rank, next_file_idx,
                   workers_finished_and_sent_histograms, sender_rank,
                   num_unique_words, single_i, global_histogram, report,
                   workerVars, toWorker>>

\* MPI_Recv into received_hist.items[i].frequency; after the last entry the
\* received histogram is merged and the worker counted as finished.
RecvFreq ==
    /\ cpc = "recvFreq"
    /\ LET k == FirstWithTag(toCoord[sender_rank], TAG_HISTOGRAM_DATA_FREQ)
           i == Len(received_hist.items)
           filled == [received_hist EXCEPT !.items[i].frequency =
                                              toCoord[sender_rank][k].data]
       IN  /\ CRecvFrom(TAG_HISTOGRAM_DATA_FREQ, k)
           /\ IF i < num_unique_words
              THEN /\ received_hist' = filled
                   /\ cpc' = "recvWord"
                   /\ UNCHANGED <<global_histogram, workers_finished_and_sent_histograms>>
              ELSE /\ global_histogram' = merge_histograms(global_histogram, filled)
                   /\ received_hist' = free_histogram_content
                   /\ workers_finished_and_sent_histograms' =
                          workers_finished_and_sent_histograms + 1
                   /\ cpc' = LoopHead(workers_finished_and_sent_histograms + 1)
    /\ UNCHANGED <<inputVars, worker_rank, next_file_idx, sender_rank,
                   num_unique_words, single_i, report, workerVars, toWorker>>

\* sort_histogram_by_word and write_histogram_to_csv.
Report ==
    /\ cpc = "finalize"
    /\ global_histogram' = sort_histogram_by_word(global_histogram)
    /\ report' = write_histogram_to_csv(global_histogram')
    /\ cpc' = "reported"
    /\ UNCHANGED <<inputVars, worker_rank, next_file_idx,
                   workers_finished_and_sent_histograms, sender_rank,
                   num_unique_words, received_hist, single_i, clog,
                   workerVars, toWorker, toCoord>>

\* free_histogram_content(&global_histogram) and MPI_Finalize.
Cleanup ==
    /\ cpc = "reported"
    /\ global_histogram' = free_histogram_content
    /\ cpc' = "done"
    /\ UNCHANGED <<inputVars, worker_rank, next_file_idx,
                   workers_finished_and_sent_histograms, sender_rank,
                   num_unique_words, received_hist, single_i, report, clog,
                   workerVars, toWorker, toCoord>>

Coordinator ==
    \/ SingleFile \/ SingleDone \/ Prime \/ DispatchTask
    \/ DispatchTerminate \/ RecvCount \/ RecvWord \/ RecvFreq \/ Report \/ Cleanup

\* --------------------------------------------------------------- workers
WSend(w, tag, data) ==
    /\ toCoord' = [toCoord EXCEPT ![w] = Append(@, Msg(tag, data))]
    /\ wlog' = [wlog EXCEPT ![w] = Append(@, [op |-> "send", tag |-> tag, data |-> data])]

WRecvEvent(w) == [op |-> "recv", tag |-> Head(toWorker[w]).tag, data |-> Head(toWorker[w]).data]

\* One iteration of the worker loop for a message that is not the termination
\* signal: MPI_Recv(0, MPI_ANY_TAG), count_words_in_file, the merge into
\* local_histogram and the send of the ack.
WorkerTask(w) ==
    /\ w \in Workers
    /\ wpc[w] = "recv"
    /\ WorkerSendDone(w)
    /\ toWorker[w] # <<>>
    /\ ~IsTerminate(Head(toWorker[w]))
    /\ toWorker' = [toWorker EXCEPT ![w] = Tail(@)]
    /\ task_filename' = [task_filename EXCEPT ![w] = Head(toWorker[w]).data]
    /\ LET file_hist == count_words_in_file(task_filename'[w])
       IN  local_histogram' = [local_histogram EXCEPT ![w] =
               IF file_hist # NULL THEN merge_histograms(@, file_hist[1]) ELSE @]
    /\ toCoord' = [toCoord EXCEPT ![w] = Append(@, Msg(TAG_PROCESSED_FILE_ACK, w))]
    /\ wlog' = [wlog EXCEPT ![w] = @ \o <<WRecvEvent(w),
                   [op |-> "send", tag |-> TAG_PROCESSED_FILE_ACK, data |-> w]>>]
    /\ UNCHANGED <<inputVars, coordVars, wpc, send_i>>

\* The iteration for the termination signal, up to the send of the count.
WorkerTerminate(w) ==
    /\ w \in Workers
    /\ wpc[w] = "recv"
    /\ WorkerSendDone(w)
    /\ toWorker[w] # <<>>
    /\ IsTerminate(Head(toWorker[w]))
    /\ toWorker' = [toWorker EXCEPT ![w] = Tail(@)]
    /\ task_filename' = [task_filename EXCEPT ![w] = Head(toWorker[w]).data]
    /\ toCoord' = [toCoord EXCEPT ![w] =
                      Append(@, Msg(TAG_HISTOGRAM_DATA_COUNT, local_histogram[w].count))]
    /\ wlog' = [wlog EXCEPT ![w] = @ \o <<WRecvEvent(w),
                   [op |-> "send", tag |-> TAG_HISTOGRAM_DATA_COUNT,
                    data |-> local_histogram[w].count]>>]
    /\ send_i' = [send_i EXCEPT ![w] = 0]
    /\ wpc' = [wpc EXCEPT ![w] = IF 0 < local_histogram[w].count THEN "sendWord" ELSE "break"]
    /\ UNCHANGED <<inputVars, coordVars, local_histogram>>

WorkerSendWord(w) ==
    /\ w \in Workers
    /\ wpc[w] = "sendWord"
    /\ WorkerSendDone(w)
    /\ WSend(w, TAG_HISTOGRAM_DATA_WORD, local_histogram[w].items[send_i[w] + 1].word)
    /\ wpc' = [wpc EXCEPT ![w] = "sendFreq"]
    /\ UNCHANGED <<inputVars, coordVars, local_histogram, task_filename, send_i, toWorker>>

WorkerSendFreq(w) ==
    /\ w \in Workers
    /\ wpc[w] = "sendFreq"
    /\ WorkerSendDone(w)
    /\ WSend(w, TAG_HISTOGRAM_DATA_FREQ, local_histogram[w].items[send_i[w] + 1].frequency)
    /\ send_i' = [send_i EXCEPT ![w] = @ + 1]
    /\ wpc' = [wpc EXCEPT ![w] =
                  IF send_i[w] + 1 < local_histogram[w].count THEN "sendWord" ELSE "break"]
    /\ UNCHANGED <<inputVars, coordVars, local_histogram, task_filename, toWorker>>

\* break, free_histogram_content(&local_histogram) and MPI_Finalize.
WorkerExit(w) ==
    /\ w \in Workers
    /\ wpc[w] = "break"
    /\ WorkerSendDone(w)
    /\ local_histogram' = [local_histogram EXCEPT ![w] = free_histogram_content]
    /\ wpc' = [wpc EXCEPT ![w] = "exited"]
    /\ UNCHANGED <<inputVars, coordVars, task_filename, send_i, wlog, toWorker, toCoord>>

Worker(w) ==
    \/ WorkerTask(w) \/ WorkerTerminate(w) \/ WorkerSendWord(w) \/ WorkerSendFreq(w) \/ WorkerExit(w)

Next == Coordinator \/ \E w \in 1..MaxWorkers : Worker(w)

Spec == Init /\ [][Next]_vars

\* Every process that can take its next step eventually takes it.
FairSpec == Spec /\ WF_vars(Coordinator) /\ \A w \in 1..MaxWorkers : WF_vars(Worker(w))

\* The program started on a list of files with long words.
TruncInit ==
    /\ \E mode \in {"eager", "rendezvous"}, sz \in 1..(MaxWorkers + 1),
          files \in SeqsUpTo(LongPaths, MaxFiles) : ProgramStart(mode, sz, files)
    /\ fn_in = <<>>
    /\ fn_out = <<>>

TruncSpec == TruncInit /\ [][Next]_vars

\* ------------------------------------------------ merge_histograms alone
\* Histograms as the program builds them: the result of adding up to
\* MaxTokens words, each "a" or "b", to an empty histogram.
MergeWords == {<<97>>, <<98>>}

RECURSIVE BuildHistogram(_)
BuildHistogram(words) ==
    IF words = <<>> THEN init_histogram
    ELSE add_word_to_histogram(BuildHistogram(SubSeq(words, 1, Len(words) - 1)),
                               words[Len(words)])

MergeInputs == {BuildHistogram(words) : words \in SeqsUpTo(MergeWords, MaxTokens)}

\* global_histogram after the histograms of hs have been merged into it in
\* the order of hs.
RECURSIVE MergeAll(_)
MergeAll(hs) ==
    IF hs = <<>> THEN init_histogram
    ELSE merge_histograms(MergeAll(SubSeq(hs, 1, Len(hs) - 1)), hs[Len(hs)])

Orders == {p \in [1..3 -> 1..3] : \A i, j \in 1..3 : p[i] = p[j] => i = j}

MergeInit ==
    /\ ProgramStart("eager", 1, <<>>)
    /\ fn_in \in MergeInputs \X MergeInputs \X MergeInputs
    /\ fn_out = <<>>

\* merge_histograms applied to A, B, C in both groupings and to A, B both ways.
MergeGrouped ==
    /\ fn_out = <<>>
    /\ fn_out' = [kind |-> "grouped",
                  left |-> merge_histograms(merge_histograms(fn_in[1], fn_in[2]), fn_in[3]),
                  right |-> merge_histograms(fn_in[1], merge_histograms(fn_in[2], fn_in[3])),
                  ab |-> merge_histograms(fn_in[1], fn_in[2]),
                  ba |-> merge_histograms(fn_in[2], fn_in[1])]
    /\ UNCHANGED <<coordVars, workerVars, toWorker, toCoord, sendMode, size, file_list, fn_in>>

\* A, B, C merged into an empty histogram in each of the six orders.
MergeArrival ==
    /\ fn_out = <<>>
    /\ fn_out' = [kind |-> "arrival",
                  merged |-> [p \in Orders |->
                                 MergeAll(<<fn_in[p[1]], fn_in[p[2]], fn_in[p[3]]>>)]]
    /\ UNCHANGED <<coordVars, workerVars, toWorker, toCoord, sendMode, size, file_list, fn_in>>

\* add_word_to_histogram called frequency times for the word of an entry, and
\* so for each entry of a histogram from position i on.
RECURSIVE AddTimes(_, _, _)
AddTimes(hist, word_str, n) ==
    IF n = 0 THEN hist ELSE AddTimes(add_word_to_histogram(hist, word_str), word_str, n - 1)

RECURSIVE InsertFrom(_, _, _)
InsertFrom(dest_hist, source_hist, i) ==
    IF i > source_hist.count THEN dest_hist
    ELSE InsertFrom(AddTimes(dest_hist, source_hist.items[i].word,
                             source_hist.items[i].frequency),
                    source_hist, i + 1)

\* merge_histograms(A, B) next to the repeated insertion of B into A.
MergeInsertion ==
    /\ fn_out = <<>>
    /\ fn_out' = [kind |-> "insertion",
                  merged |-> merge_histograms(fn_in[1], fn_in[2]),
                  inserted |-> InsertFrom(fn_in[1], fn_in[2], 1)]
    /\ UNCHANGED <<coordVars, workerVars, toWorker, toCoord, sendMode, size, file_list, fn_in>>

MergeNext == MergeGrouped \/ MergeArrival \/ MergeInsertion

MergeSpec == MergeInit /\ [][MergeNext]_vars

\* ------------------------------- add_word_to_histogram and merge_histograms
\* A histogram under a sequence of calls: add_word_to_histogram with a word
\* that is new or with the first word again, and one merge_histograms with
\* a source of two words, at any point, until the histogram has MaxGrowth
\* entries more than its initial capacity.
MaxGrowth == 2

\* The k-th new word: the decimal digits of k.
NewWord(k) == Decimal(k)

CallSources == {h \in MergeInputs : h.count = 2}

HistInit ==
    /\ ProgramStart("eager", 1, <<>>)
    /\ fn_in \in CallSources
    /\ fn_out = [kind |-> "calls", hist |-> init_histogram, merged |-> FALSE]

HistAddNew ==
    /\ fn_out # <<>> /\ fn_out.kind = "calls"
    /\ fn_out.hist.count < INITIAL_HIST_CAPACITY + MaxGrowth
    /\ fn_out' = [fn_out EXCEPT !.hist = add_word_to_histogram(@, NewWord(@.count))]
    /\ UNCHANGED <<coordVars, workerVars, toWorker, toCoord, sendMode, size, file_list, fn_in>>

HistAddAgain ==
    /\ fn_out # <<>> /\ fn_out.kind = "calls"
    /\ fn_out.hist.count > 0
    /\ fn_out.hist.items[1].frequency < MaxTokens
    /\ fn_out' = [fn_out EXCEPT !.hist = add_word_to_histogram(@, @.items[1].word)]
    /\ UNCHANGED <<coordVars, workerVars, toWorker, toCoord, sendMode, size, file_list, fn_in>>

HistMerge ==
    /\ fn_out # <<>> /\ fn_out.kind = "calls"
    /\ ~fn_out.merged
    /\ fn_out.hist.count + fn_in.count <= INITIAL_HIST_CAPACITY + MaxGrowth
    /\ fn_out' = [fn_out EXCEPT !.hist = merge_histograms(@, fn_in), !.merged = TRUE]
    /\ UNCHANGED <<coordVars, workerVars, toWorker, toCoord, sendMode, size, file_list, fn_in>>

HistNext == HistAddNew \/ HistAddAgain \/ HistMerge

\* The histograms of the program's runs on files with long words, and the
\* histogram under calls.
HistSpec == (TruncInit \/ HistInit) /\ [][(fn_out = <<>> /\ Next) \/ HistNext]_vars

\* --------------------------------------------- count_words_in_file alone
\* The contents of the file read: every sequence of up to MaxBytes bytes out
\* of a letter of each case, a digit and two separators; the text
\* "The quick brown fox. The Fox runs."; and runs of MAX_WORD_LEN - 2 to
\* MAX_WORD_LEN + MaxBytes letters, alone, before a separator and a short
\* word, and after them.
MaxBytes == 3

TokenBytes == {97, 66, 49, 32, 46}

ScenarioA == <<84, 104, 101, 32, 113, 117, 105, 99, 107, 32, 98, 114, 111, 119, 110, 32, 102, 111, 120, 46, 32, 84, 104, 101, 32, 70, 111, 120, 32, 114, 117, 110, 115, 46>>

LongRun(n) == [i \in 1..n |-> IF i % 2 = 1 THEN 97 ELSE 66]

LongInputs ==
    UNION {{LongRun(n), LongRun(n) \o <<32, 98>>, <<66, 46>> \o LongRun(n)} :
              n \in (MAX_WORD_LEN - 2)..(MAX_WORD_LEN + MaxBytes)}

TokenInputs == SeqsUpTo(TokenBytes, MaxBytes) \cup {ScenarioA} \cup LongInputs

TokenInit ==
    /\ ProgramStart("eager", 1, <<>>)
    /\ fn_in \in TokenInputs
    /\ fn_out = [kind |-> "reading", pos |-> 0, hist |-> init_histogram,
                 current_word |-> <<>>]

\* count_words_in_file on an opened file: one iteration of the fgetc loop.
TokenReadByte ==
    /\ fn_out.kind = "reading"
    /\ fn_out.pos < Len(fn_in)
    /\ LET step == TokenStep(fn_out.hist, fn_out.current_word, fn_in[fn_out.pos + 1])
       IN  fn_out' = [kind |-> "reading", pos |-> fn_out.pos + 1, hist |-> step.hist,
                      current_word |-> step.cw]
    /\ UNCHANGED <<coordVars, workerVars, toWorker, toCoord, sendMode, size, file_list, fn_in>>

\* fgetc returns EOF: the pending token is added and the histogram returned.
TokenEndOfFile ==
    /\ fn_out.kind = "reading"
    /\ fn_out.pos = Len(fn_in)
    /\ fn_out' = [kind |-> "tokens", pos |-> fn_out.pos,
                  hist |-> TokenEnd(fn_out.hist, fn_out.current_word),
                  current_word |-> fn_out.current_word]
    /\ UNCHANGED <<coordVars, workerVars, toWorker, toCoord, sendMode, size, file_list, fn_in>>

TokenNext == TokenReadByte \/ TokenEndOfFile

TokenSpec == TokenInit /\ [][TokenNext]_vars

\* -------------------------------------------------- the filelist.txt loader
\* The lines of filelist.txt as fgets returns them, each shorter than
\* MAX_FILENAME_LEN - 1 bytes: "f1\n", "f2\r\n", "\n" and "\r\n".
LineKinds == {<<102, 49, 10>>, <<102, 50, 13, 10>>, <<10>>, <<13, 10>>}

\* A file repeats a pattern of up to MaxPattern lines; it has up to MaxExtra
\* lines, or between MAX_FILES - 1 and MAX_FILES + MaxExtra lines, and may end
\* with the line "f1" without a newline.
MaxPattern == 2

MaxExtra == 2

LinePatterns == SeqsUpTo(LineKinds, MaxPattern) \ {<<>>}

LineCounts == 0..MaxExtra \cup (MAX_FILES - 1)..(MAX_FILES + MaxExtra)

Repeat(pattern, n) == [i \in 1..n |-> pattern[((i - 1) % Len(pattern)) + 1]]

LoaderInputs ==
    UNION {{Repeat(pattern, n), Repeat(pattern, n) \o <<<<102, 49>>>>} :
              pattern \in LinePatterns, n \in LineCounts}

\* strcspn(s, "c"): the number of bytes of s before the first byte c.
strcspn(s, c) ==
    IF \E i \in DOMAIN s : s[i] = c
    THEN (CHOOSE i \in DOMAIN s : s[i] = c /\ \A j \in 1..(i - 1) : s[j] # c) - 1
    ELSE Len(s)

\* s[strcspn(s, "\n")] = '\0' and then the same for "\r".
StripLineEnd(s) ==
    LET no_lf == SubSeq(s, 1, strcspn(s, 10))
    IN  SubSeq(no_lf, 1, strcspn(no_lf, 13))

\* Loader state: pos lines read, total_files, the slots 0..total_files-1 of
\* file_list, and the highest index of a slot fgets has written to.
LoaderInit ==
    /\ ProgramStart("eager", 1, <<>>)
    /\ fn_in \in LoaderInputs
    /\ fn_out = [kind |-> "loading", pos |-> 0, total_files |-> 0, file_list |-> <<>>,
                 max_slot |-> -1]

\* fgets reads a line into file_list[total_files], a slot of the array; the
\* test total_files < MAX_FILES then holds and the body of the loop runs.
LoadLine ==
    /\ fn_out.kind = "loading"
    /\ fn_out.pos < Len(fn_in)
    /\ fn_out.total_files < MAX_FILES
    /\ LET path == StripLineEnd(fn_in[fn_out.pos + 1])
           slot == fn_out.total_files
       IN  fn_out' = [kind |-> "loading", pos |-> fn_out.pos + 1,
                      total_files |-> IF Len(path) > 0 THEN slot + 1 ELSE slot,
                      file_list |-> IF Len(path) > 0 THEN Append(fn_out.file_list, path)
                                    ELSE fn_out.file_list,
                      max_slot |-> IF slot > fn_out.max_slot THEN slot ELSE fn_out.max_slot]
    /\ UNCHANGED <<coordVars, workerVars, toWorker, toCoord, sendMode, size, file_list, fn_in>>

\* With total_files = MAX_FILES fgets is still called first and reads the
\* line into file_list[MAX_FILES], past the end of the array; only then the
\* test fails and the loop ends.  The write is undefined behaviour: the run
\* goes on unharmed or memory next to the array is damaged.
LoadOverflow ==
    /\ fn_out.kind = "loading"
    /\ fn_out.pos < Len(fn_in)
    /\ fn_out.total_files >= MAX_FILES
    /\ \E outcome \in {"loaded", "undefined"} :
          fn_out' = [fn_out EXCEPT !.kind = outcome, !.pos = @ + 1,
                                   !.max_slot = fn_out.total_files]
    /\ UNCHANGED <<coordVars, workerVars, toWorker, toCoord, sendMode, size, file_list, fn_in>>

\* fgets returns NULL at the end of the file.
LoadEnd ==
    /\ fn_out.kind = "loading"
    /\ fn_out.pos = Len(fn_in)
    /\ fn_out' = [fn_out EXCEPT !.kind = "loaded"]
    /\ UNCHANGED <<coordVars, workerVars, toWorker, toCoord, sendMode, size, file_list, fn_in>>

LoaderNext == LoadLine \/ LoadOverflow \/ LoadEnd

LoaderSpec == LoaderInit /\ [][LoaderNext]_vars

\* =================================================================== claims
\* ---------------------------------------------------- reading the histories
Finalized == cpc \in {"finalize", "reported", "done"}

\* No process can take a step: each has ended or is blocked in an MPI call.
Quiescent == ~ENABLED Next

IsTaskSend(e) == e.op = "send" /\ e.tag = TAG_TASK
IsTerminateSend(e) == e.op = "send" /\ e.tag = TAG_END_OF_TASKS_SEND_HISTOGRAM
IsAckRecv(e) == e.op = "recv" /\ e.tag = TAG_PROCESSED_FILE_ACK

\* How many task messages rank 0 has sent for position i of file_list.
TaskSendCount(i) == Cardinality({k \in DOMAIN clog : IsTaskSend(clog[k]) /\ clog[k].idx = i})

TasksSentTo(w) == Cardinality({k \in DOMAIN clog : IsTaskSend(clog[k]) /\ clog[k].peer = w})

AcksReceivedFrom(w) == Cardinality({k \in DOMAIN clog : IsAckRecv(clog[k]) /\ clog[k].peer = w})

\* The messages rank 0 has sent to worker w, in order.
SendsTo(w) ==
    LET ToW(e) == e.op = "send" /\ e.peer = w
    IN  SelectSeq(clog, ToW)

HistTags == {TAG_HISTOGRAM_DATA_COUNT, TAG_HISTOGRAM_DATA_WORD, TAG_HISTOGRAM_DATA_FREQ}

RECURSIVE SumFreq(_)
SumFreq(items) == IF items = <<>> THEN 0 ELSE Head(items).frequency + SumFreq(Tail(items))

\* Number of maximal runs of alphanumeric bytes in a byte sequence.
TokenCount(bytes) ==
    Cardinality({i \in 1..Len(bytes) :
                    isalnum(bytes[i]) /\ (i = 1 \/ ~isalnum(bytes[i - 1]))})

RECURSIVE TotalTokens(_)
TotalTokens(files) ==
    IF files = <<>> THEN 0
    ELSE (IF Head(files) \in DOMAIN Disk THEN TokenCount(Disk[Head(files)]) ELSE 0)
         + TotalTokens(Tail(files))

\* The histogram the single process loop builds for a list of files.
RECURSIVE SingleProcessHistogram(_)
SingleProcessHistogram(files) ==
    IF files = <<>> THEN init_histogram
    ELSE LET file_hist == count_words_in_file(files[Len(files)])
             before == SingleProcessHistogram(SubSeq(files, 1, Len(files) - 1))
         IN  IF file_hist # NULL THEN merge_histograms(before, file_hist[1]) ELSE before

\* The report of a single process run over a list of files.
SingleProcessReport(files) ==
    write_histogram_to_csv(sort_histogram_by_word(SingleProcessHistogram(files)))

ReadableFiles == LET Readable(f) == f \in DOMAIN Disk IN SelectSeq(file_list, Readable)

\* ------------------------------------------------------------------------ C1
\* C1: with an empty file list and at least one worker the run completes:
\* every worker is sent the termination signal as its first and only
\* message, rank 0 leaves the collection loop and reaches finalization, and
\* the report it writes is the header line only.  Stated on the states in
\* which no process can move any more: there rank 0 must have finished.
C1_EmptyListCompletes ==
    (total_files = 0 /\ num_workers >= 1 /\ Quiescent)
        => /\ cpc = "done"
           /\ report = <<"word,frequency">>
           /\ \A w \in Workers :
                 Len(SendsTo(w)) = 1 /\ IsTerminateSend(SendsTo(w)[1])

\* ------------------------------------------------------------------------ C2
\* C2: for every number of workers and every length of the file list, under
\* fair scheduling the reactive loop ends, rank 0 reaches finalization and
\* every worker leaves its loop (no process stays blocked in an MPI call).
C2_RunTerminates ==
    <>(cpc = "done" /\ \A w \in Workers : wpc[w] = "exited")

\* ------------------------------------------------------------------------ C3
\* C3: with workers, every position of file_list is sent in a task message
\* at most once, and exactly once when rank 0 has reached finalization; the
\* cursor next_file_idx stays within 0..total_files, never decreases and
\* changes only in steps of rank 0 that send a task.
C3_CursorState ==
    /\ next_file_idx \in 0..total_files
    /\ \A i \in 0..(total_files - 1) : TaskSendCount(i) <= 1
    /\ \A k \in DOMAIN clog : IsTaskSend(clog[k]) => clog[k].idx \in 0..(total_files - 1)
    /\ (size > 1 /\ Finalized) => \A i \in 0..(total_files - 1) : TaskSendCount(i) = 1

C3_CursorStep ==
    /\ next_file_idx' >= next_file_idx
    /\ next_file_idx' # next_file_idx =>
          /\ next_file_idx' = next_file_idx + 1
          /\ Prime \/ DispatchTask
          /\ IsTaskSend(clog'[Len(clog')]) /\ clog'[Len(clog')].idx = next_file_idx

C3_EachTaskDispatchedOnce == [](C3_CursorState) /\ [][C3_CursorStep]_vars

C3_Witness ==
    /\ num_workers = 2 /\ total_files >= 3 /\ cpc = "finalize"
    /\ \E w \in Workers : TasksSentTo(w) >= 2

\* ------------------------------------------------------------------------ C4
\* C4: priming sends exactly one message to each worker before the first
\* receive of rank 0: worker k gets file k-1 if k <= total_files, else the
\* termination signal; a worker that has sent nothing yet has been sent at
\* most one message.
C4_PrimingOneMessageEach ==
    /\ \A k \in DOMAIN clog :
          (\A j \in 1..k : clog[j].op = "send")
              => /\ k <= num_workers
                 /\ clog[k].peer = k
                 /\ IF k <= total_files
                    THEN IsTaskSend(clog[k]) /\ clog[k].idx = k - 1
                         /\ clog[k].data = file_list[k]
                    ELSE IsTerminateSend(clog[k])
    /\ (size > 1 /\ cpc # "prime") => Len(clog) >= num_workers
    /\ \A k \in DOMAIN clog : clog[k].op = "recv" => k > num_workers
    /\ \A w \in Workers :
          (\A k \in DOMAIN wlog[w] : wlog[w][k].op # "send")
              => Len(SendsTo(w)) <= 1
    /\ \A w \in Workers : \A k \in DOMAIN wlog[w] :
          (\A j \in 1..k : wlog[w][j].op = "recv") => k <= 1

C4_Witness ==
    /\ num_workers = 2 /\ total_files = 1 /\ cpc = "recvAck" /\ Len(clog) = 2
    /\ IsTaskSend(clog[1]) /\ IsTerminateSend(clog[2])

\* ------------------------------------------------------------------------ C5
\* C5: conservation.  Whenever rank 0 has left its loop, the frequencies of
\* global_histogram sum up to the number of tokens of all readable files of
\* file_list, with or without workers and whatever the order of arrival.
C5_Conservation ==
    cpc \in {"finalize", "reported"}
        => SumFreq(global_histogram.items) = TotalTokens(file_list)

C5_Witness ==
    /\ cpc = "finalize" /\ num_workers = 2
    /\ \A w \in Workers : TasksSentTo(w) >= 1
    /\ \E i \in DOMAIN file_list : file_list[i] \notin DOMAIN Disk
    /\ SumFreq(global_histogram.items) >= 5

\* ------------------------------------------------------------------------ C6
\* C6: for a given file list the report written is the one a single process
\* writes for that list, for every number of workers and every order in which
\* the acks arrive.
C6_ReportIndependentOfWorkers ==
    cpc \in {"reported", "done"} => report = SingleProcessReport(file_list)

\* Two workers, the second drained first, and a report of several rows.
C6_Witness ==
    /\ cpc = "done" /\ num_workers = 2 /\ Len(report) >= 3
    /\ \E j, k \in DOMAIN clog :
          /\ j < k
          /\ clog[j].tag = TAG_HISTOGRAM_DATA_WORD /\ clog[j].peer = 2
          /\ clog[k].tag = TAG_HISTOGRAM_DATA_WORD /\ clog[k].peer = 1

\* ------------------------------------------------------------------------ C7
\* C7: merge_histograms is commutative and associative on histograms taken
\* as mappings from word to frequency: merge(merge(A,B),C) and
\* merge(A,merge(B,C)) are the same histogram, merge(A,B) and merge(B,A) are
\* the same, and merging A, B, C in any order of arrival gives the histogram
\* of merging them in the order A, B, C.
HistAsMap(hist) == {<<hist.items[i].word, hist.items[i].frequency>> : i \in 1..hist.count}

SameHistogram(g, h) == g.count = h.count /\ HistAsMap(g) = HistAsMap(h)

C7_MergeCommutativeAssociative ==
    /\ (fn_out # <<>> /\ fn_out.kind = "grouped")
          => /\ SameHistogram(fn_out.left, fn_out.right)
             /\ SameHistogram(fn_out.ab, fn_out.ba)
    /\ (fn_out # <<>> /\ fn_out.kind = "arrival")
          => \A p \in Orders :
                SameHistogram(fn_out.merged[p], fn_out.merged[[i \in 1..3 |-> i]])

\* A and B share a word and list their words in opposite orders.
C7_Witness ==
    /\ fn_out # <<>> /\ fn_out.kind = "grouped"
    /\ fn_in[1].count = 2 /\ fn_in[2].count = 2 /\ fn_in[3].count >= 1
    /\ fn_in[1].items[1].word # fn_in[2].items[1].word
    /\ fn_in[1].items[1].frequency = 2
    /\ fn_out.ab.items # fn_out.ba.items

\* ------------------------------------------------------------------------ C8
\* C8: a worker sends its histogram (the count, then the entries) at most
\* once, only after it has received the termination signal and never while
\* it handles a task; once it has sent the count it receives nothing and
\* sends nothing but the entries; when it has left its loop, and in every
\* state where no process can move, it has sent the count exactly once,
\* followed by exactly the entries of its histogram.
HistCountsSent(w) ==
    Cardinality({k \in DOMAIN wlog[w] :
                    wlog[w][k].op = "send" /\ wlog[w][k].tag = TAG_HISTOGRAM_DATA_COUNT})

HistMessagesSent(w) ==
    Cardinality({k \in DOMAIN wlog[w] : wlog[w][k].op = "send" /\ wlog[w][k].tag \in HistTags})

C8_HistogramSentOnceAtShutdown ==
    \A w \in Workers :
       /\ HistCountsSent(w) <= 1
       /\ \A k \in DOMAIN wlog[w] :
             (wlog[w][k].op = "send" /\ wlog[w][k].tag = TAG_HISTOGRAM_DATA_COUNT)
                 => /\ k > 1
                    /\ wlog[w][k - 1].op = "recv"
                    /\ wlog[w][k - 1].tag = TAG_END_OF_TASKS_SEND_HISTOGRAM
                    /\ \A j \in (k + 1)..Len(wlog[w]) :
                          /\ wlog[w][j].op = "send"
                          /\ wlog[w][j].tag = IF (j - k) % 2 = 1
                                              THEN TAG_HISTOGRAM_DATA_WORD
                                              ELSE TAG_HISTOGRAM_DATA_FREQ
                    /\ Len(wlog[w]) - k <= 2 * wlog[w][k].data
       /\ \A k \in DOMAIN wlog[w] :
             (wlog[w][k].op = "send" /\ wlog[w][k].tag \in HistTags)
                 => \E j \in 1..k : wlog[w][j].op = "send"
                                    /\ wlog[w][j].tag = TAG_HISTOGRAM_DATA_COUNT
       /\ \A k \in DOMAIN wlog[w] :
             (wlog[w][k].op = "recv" /\ wlog[w][k].tag = TAG_TASK)
                 => /\ k < Len(wlog[w])
                    /\ wlog[w][k + 1].op = "send"
                    /\ wlog[w][k + 1].tag = TAG_PROCESSED_FILE_ACK
       /\ (wpc[w] \in {"break", "exited"} \/ Quiescent)
             => /\ HistCountsSent(w) = 1
                /\ \E k \in DOMAIN wlog[w] :
                      /\ wlog[w][k].tag = TAG_HISTOGRAM_DATA_COUNT
                      /\ HistMessagesSent(w) = 1 + 2 * wlog[w][k].data

C8_Witness ==
    \E w \in Workers :
       /\ wpc[w] = "exited"
       /\ TasksSentTo(w) >= 2
       /\ HistMessagesSent(w) >= 5

\* ------------------------------------------------------------------------ C9
\* C9: back-pressure.  In every state each worker has at most one task that
\* was sent to it and whose ack rank 0 has not received yet, so at most
\* num_workers tasks are in flight; a worker never has two messages waiting.
C9_BackPressure ==
    /\ \A w \in Workers :
          /\ TasksSentTo(w) - AcksReceivedFrom(w) \in {0, 1}
          /\ Len(toWorker[w]) <= 1
    /\ next_file_idx - Cardinality({k \in DOMAIN clog : IsAckRecv(clog[k])}) <= num_workers

C9_Witness ==
    /\ num_workers = 2
    /\ \A w \in Workers : TasksSentTo(w) - AcksReceivedFrom(w) = 1
    /\ \E w \in Workers : TasksSentTo(w) = 2

\* ----------------------------------------------------------------------- C10
\* C10: a file that cannot be opened is not fatal: the run completes and the
\* report is the one of the run over the files that can be opened.  Stated on
\* the states in which no process can move any more.
C10_UnreadableFileNotFatal ==
    ((\E i \in DOMAIN file_list : file_list[i] \notin DOMAIN Disk) /\ Quiescent)
        => /\ cpc = "done"
           /\ report = SingleProcessReport(ReadableFiles)

\* ----------------------------------------------------------------------- C11
\* C11: the termination signal and the drain are coupled.  Whenever rank 0
\* has sent the termination signal to a worker, in the priming loop or in
\* the reactive loop, its next MPI call is the receive of that worker's
\* count, with no call for another worker in between; and a worker sends its
\* count only as the call that follows its receive of the termination signal.
IsCountRecv(e) == e.op = "recv" /\ e.tag = TAG_HISTOGRAM_DATA_COUNT

C11_TerminateCoupledWithDrain ==
    /\ \A k \in DOMAIN clog :
          IsTerminateSend(clog[k])
              => IF k < Len(clog)
                 THEN IsCountRecv(clog[k + 1]) /\ clog[k + 1].peer = clog[k].peer
                 ELSE cpc = "recvCount" /\ sender_rank = clog[k].peer
    /\ \A w \in Workers : \A k \in DOMAIN wlog[w] :
          (wlog[w][k].op = "send" /\ wlog[w][k].tag = TAG_HISTOGRAM_DATA_COUNT)
              => /\ k > 1
                 /\ wlog[w][k - 1].op = "recv"
                 /\ wlog[w][k - 1].tag = TAG_END_OF_TASKS_SEND_HISTOGRAM

\* ----------------------------------------------------------------------- C12
\* C12: drains are sequential and one-shot.  From the receive of a worker's
\* count to the receive of its last frequency, rank 0 makes no other call
\* than the receives of that worker's words and frequencies in turn; no
\* worker's count is received twice; and when rank 0 has left the loop it
\* has drained every worker, each exactly once and completely.
CountRecvsFrom(w) ==
    Cardinality({k \in DOMAIN clog : IsCountRecv(clog[k]) /\ clog[k].peer = w})

\* The drain that starts at position k of the history is complete.
DrainComplete(k) == k + 2 * clog[k].data <= Len(clog)

C12_State ==
    /\ \A k \in DOMAIN clog :
          IsCountRecv(clog[k])
              => /\ \A j \in 1..(2 * clog[k].data) :
                       k + j <= Len(clog)
                           => /\ clog[k + j].op = "recv"
                              /\ clog[k + j].peer = clog[k].peer
                              /\ clog[k + j].tag = IF j % 2 = 1
                                                   THEN TAG_HISTOGRAM_DATA_WORD
                                                   ELSE TAG_HISTOGRAM_DATA_FREQ
                 /\ ~DrainComplete(k)
                       => /\ cpc \in {"recvWord", "recvFreq"}
                          /\ sender_rank = clog[k].peer
                          /\ k + 2 * Len(received_hist.items)
                                 - (IF cpc = "recvFreq" THEN 1 ELSE 0) = Len(clog)
    /\ \A w \in Workers : CountRecvsFrom(w) <= 1
    /\ workers_finished_and_sent_histograms =
          Cardinality({k \in DOMAIN clog : IsCountRecv(clog[k]) /\ DrainComplete(k)})
    /\ (size > 1 /\ Finalized)
          => /\ workers_finished_and_sent_histograms = num_workers
             /\ \A w \in Workers :
                   \E k \in DOMAIN clog :
                      IsCountRecv(clog[k]) /\ clog[k].peer = w /\ DrainComplete(k)

\* A worker is counted as finished in the step that receives the last
\* message of its drain, and only then.
C12_Step ==
    workers_finished_and_sent_histograms' # workers_finished_and_sent_histograms
        => /\ workers_finished_and_sent_histograms' =
                  workers_finished_and_sent_histograms + 1
           /\ Len(clog') = Len(clog) + 1
           /\ LET last == clog'[Len(clog')]
              IN  /\ last.op = "recv" /\ last.peer = sender_rank
                  /\ \/ IsCountRecv(last) /\ last.data = 0
                     \/ last.tag = TAG_HISTOGRAM_DATA_FREQ
           /\ CountRecvsFrom(sender_rank)' = 1

C12_DrainsSequentialOneShot == [](C12_State) /\ [][C12_Step]_vars

\* Rank 0 has left the loop after draining two workers with several entries
\* each, the second worker first.
C12_Witness ==
    /\ num_workers = 2 /\ cpc = "finalize"
    /\ \E j, k \in DOMAIN clog :
          /\ j < k
          /\ IsCountRecv(clog[j]) /\ clog[j].peer = 2 /\ clog[j].data >= 2
          /\ IsCountRecv(clog[k]) /\ clog[k].peer = 1 /\ clog[k].data >= 2

\* ----------------------------------------------------------------------- C13
\* C13: faithful transfer.  What a worker sends after the termination signal
\* is its local histogram as it was when the signal arrived: the count, then
\* word i followed by frequency i for each entry in order.  What rank 0
\* receives from a worker is what that worker sent, in that order, and the
\* histogram rank 0 merges at the end of a drain has exactly the entries of
\* the drained worker's histogram, in the same order, also while acks of
\* other workers are waiting.
Stream(events) == [i \in DOMAIN events |-> <<events[i].tag, events[i].data>>]

\* The histogram messages worker w has sent, and those rank 0 has received
\* from worker w.
SentByWorker(w) ==
    LET Hist(e) == e.op = "send" /\ e.tag \in HistTags
    IN  Stream(SelectSeq(wlog[w], Hist))

ReceivedFrom(w) ==
    LET Hist(e) == e.op = "recv" /\ e.peer = w /\ e.tag \in HistTags
    IN  Stream(SelectSeq(clog, Hist))

\* A histogram as the protocol puts it on the wire.
Wire(hist) ==
    [i \in 1..(1 + 2 * hist.count) |->
        IF i = 1 THEN <<TAG_HISTOGRAM_DATA_COUNT, hist.count>>
        ELSE IF i % 2 = 0 THEN <<TAG_HISTOGRAM_DATA_WORD, hist.items[i \div 2].word>>
        ELSE <<TAG_HISTOGRAM_DATA_FREQ, hist.items[i \div 2].frequency>>]

IsPrefix(a, b) == Len(a) <= Len(b) /\ SubSeq(b, 1, Len(a)) = a

\* The entries carried by a complete stream of histogram messages.
EntriesOf(stream) ==
    [i \in 1..((Len(stream) - 1) \div 2) |->
        [word |-> stream[2 * i][2], frequency |-> stream[2 * i + 1][2]]]

C13_State ==
    /\ \A w \in Workers :
          /\ wpc[w] \in {"sendWord", "sendFreq", "break"}
                => /\ IsPrefix(SentByWorker(w), Wire(local_histogram[w]))
                   /\ Len(SentByWorker(w)) =
                         1 + 2 * send_i[w] + (IF wpc[w] = "sendFreq" THEN 1 ELSE 0)
                   /\ wpc[w] = "break" => SentByWorker(w) = Wire(local_histogram[w])
          /\ wpc[w] = "recv" => SentByWorker(w) = <<>>
          /\ IsPrefix(ReceivedFrom(w), SentByWorker(w))
    /\ cpc \in {"recvWord", "recvFreq"}
          => LET r == ReceivedFrom(sender_rank)
             IN  /\ received_hist.count = r[1][2]
                 /\ Len(r) = 2 * Len(received_hist.items)
                               + (IF cpc = "recvWord" THEN 1 ELSE 0)
                 /\ \A i \in DOMAIN received_hist.items :
                       /\ received_hist.items[i].word = r[2 * i][2]
                       /\ 2 * i + 1 <= Len(r)
                             => received_hist.items[i].frequency = r[2 * i + 1][2]

C13_Step ==
    /\ \A w \in Workers :
          (wpc[w] \in {"sendWord", "sendFreq", "break"} /\ wpc'[w] # "exited")
              => local_histogram'[w] = local_histogram[w]
    /\ (cpc = "recvFreq" /\ cpc' \in {"recvAck", "finalize"})
          => LET sent == SentByWorker(sender_rank)
             IN  /\ ReceivedFrom(sender_rank)' = sent
                 /\ Len(sent) = 1 + 2 * sent[1][2]
                 /\ global_histogram' =
                       merge_histograms(global_histogram,
                                        [items |-> EntriesOf(sent), count |-> sent[1][2],
                                         capacity |-> sent[1][2]])

C13_FaithfulTransfer == [](C13_State) /\ [][C13_Step]_vars

\* Worker 1 has been drained of two entries or more while an ack of worker 2
\* was waiting.
C13_Witness ==
    /\ num_workers = 2 /\ cpc = "recvAck"
    /\ workers_finished_and_sent_histograms = 1
    /\ Len(ReceivedFrom(1)) >= 5
    /\ FirstWithTag(toCoord[2], TAG_PROCESSED_FILE_ACK) # 0

\* ----------------------------------------------------------------------- C14
\* C14: merging by direct addition equals repeated insertion.  For
\* histograms dest and source as the program builds them,
\* merge_histograms(dest, source) has the same words with the same counts as
\* dest after add_word_to_histogram(dest, w) has been called f times for
\* every entry (w, f) of source.
C14_MergeEqualsRepeatedInsertion ==
    (fn_out # <<>> /\ fn_out.kind = "insertion")
        => SameHistogram(fn_out.merged, fn_out.inserted)

\* The source has a word of dest with frequency 2 or more and a word that is
\* not in dest.
C14_Witness ==
    /\ fn_out # <<>> /\ fn_out.kind = "insertion"
    /\ fn_in[1].count = 1 /\ fn_in[2].count = 2
    /\ \E i \in 1..2 : /\ fn_in[2].items[i].word = fn_in[1].items[1].word
                       /\ fn_in[2].items[i].frequency >= 2
    /\ fn_out.merged.count = 2

\* ----------------------------------------------------------------------- C15
\* C15: the tokenizer rule.  The histogram of a file holds exactly the
\* maximal runs of alphanumeric bytes of the file, in lower case, each word
\* with the number of runs that spell it; no entry is the empty word; a run
\* that ends with the file is counted; the text of scenario A gives
\* the:2, quick:1, brown:1, fox:2, runs:1.
\* The positions at which a maximal run of alphanumeric bytes starts.
RunStarts(bytes) ==
    {i \in 1..Len(bytes) : isalnum(bytes[i]) /\ (i = 1 \/ ~isalnum(bytes[i - 1]))}

\* The maximal run that starts at position i.
RunAt(bytes, i) ==
    LET j == CHOOSE j \in i..Len(bytes) :
                 /\ \A k \in i..j : isalnum(bytes[k])
                 /\ j = Len(bytes) \/ ~isalnum(bytes[j + 1])
    IN  SubSeq(bytes, i, j)

LowerCase(run) == [k \in DOMAIN run |-> tolower(run[k])]

\* The first MAX_WORD_LEN - 1 bytes of a run.
Cut(run) == SubSeq(run, 1, IF Len(run) < MAX_WORD_LEN - 1 THEN Len(run) ELSE MAX_WORD_LEN - 1)

ScenarioAHistogram ==
    {<<<<116, 104, 101>>, 2>>, <<<<113, 117, 105, 99, 107>>, 1>>,
     <<<<98, 114, 111, 119, 110>>, 1>>, <<<<102, 111, 120>>, 2>>,
     <<<<114, 117, 110, 115>>, 1>>}

\* The statement as claimed: every run is a token in full.
C15_TokensAreMaximalRuns ==
    fn_out.kind = "tokens"
        => LET hist == fn_out.hist
               Token(i) == LowerCase(RunAt(fn_in, i))
           IN  /\ hist.count = Len(hist.items)
               /\ \A i \in RunStarts(fn_in) :
                     \E e \in DOMAIN hist.items : hist.items[e].word = Token(i)
               /\ \A e \in DOMAIN hist.items :
                     /\ hist.items[e].word # <<>>
                     /\ hist.items[e].frequency =
                           Cardinality({i \in RunStarts(fn_in) :
                                           Token(i) = hist.items[e].word})
                     /\ \A d \in DOMAIN hist.items :
                           hist.items[d].word = hist.items[e].word => d = e
               /\ fn_in = ScenarioA => HistAsMap(hist) = ScenarioAHistogram

\* The statement that holds: every run is a token cut to its first
\* MAX_WORD_LEN - 1 bytes.
C15_TokensAreCutMaximalRuns ==
    fn_out.kind = "tokens"
        => LET hist == fn_out.hist
               Token(i) == LowerCase(Cut(RunAt(fn_in, i)))
           IN  /\ hist.count = Len(hist.items)
               /\ \A i \in RunStarts(fn_in) :
                     \E e \in DOMAIN hist.items : hist.items[e].word = Token(i)
               /\ \A e \in DOMAIN hist.items :
                     /\ hist.items[e].word # <<>>
                     /\ hist.items[e].frequency =
                           Cardinality({i \in RunStarts(fn_in) :
                                           Token(i) = hist.items[e].word})
                     /\ \A d \in DOMAIN hist.items :
                           hist.items[d].word = hist.items[e].word => d = e
               /\ fn_in = ScenarioA => HistAsMap(hist) = ScenarioAHistogram

\* Scenario A has been tokenized.
C15_Witness ==
    /\ fn_out.kind = "tokens"
    /\ fn_in = ScenarioA
    /\ fn_out.hist.count = 5

\* ----------------------------------------------------------------------- C16
\* C16: truncation.  A maximal run of more than MAX_WORD_LEN - 1
\* alphanumeric bytes counts as one token, its first MAX_WORD_LEN - 1 bytes
\* in lower case, with and without workers; long words with the same first
\* MAX_WORD_LEN - 1 bytes are one entry of the final histogram whose
\* frequency is the number of their occurrences in all files, also when the
\* files went to different workers and the entry crossed the wire.
\* The tokens of each file by the rule of C15, one per run.
ExpectedTokens ==
    [p \in DOMAIN Disk |->
        [i \in RunStarts(Disk[p]) |-> LowerCase(Cut(RunAt(Disk[p], i)))]]

\* How many runs of the readable files of a list give the token word.
RECURSIVE Occurrences(_, _)
Occurrences(files, word) ==
    IF files = <<>> THEN 0
    ELSE (IF Head(files) \in DOMAIN Disk
          THEN Cardinality({i \in DOMAIN ExpectedTokens[Head(files)] :
                               ExpectedTokens[Head(files)][i] = word})
          ELSE 0)
         + Occurrences(Tail(files), word)

C16_Truncation ==
    /\ cpc \in {"finalize", "reported"}
          => /\ \A e \in 1..global_histogram.count :
                   /\ Len(global_histogram.items[e].word) <= MAX_WORD_LEN - 1
                   /\ global_histogram.items[e].frequency =
                         Occurrences(file_list, global_histogram.items[e].word)
                   /\ \A d \in 1..global_histogram.count :
                         global_histogram.items[d].word = global_histogram.items[e].word
                             => d = e
             /\ \A f \in DOMAIN file_list :
                   file_list[f] \in DOMAIN Disk
                       => \A i \in DOMAIN ExpectedTokens[file_list[f]] :
                             \E e \in 1..global_histogram.count :
                                global_histogram.items[e].word =
                                    ExpectedTokens[file_list[f]][i]
    /\ cpc \in {"reported", "done"} => report = SingleProcessReport(file_list)
    /\ \A k \in DOMAIN clog :
          clog[k].tag = TAG_HISTOGRAM_DATA_WORD => Len(clog[k].data) <= MAX_WORD_LEN - 1

\* Two workers counted one file with long words each; the final histogram
\* has the short word and one entry for the three long ones.
C16_Witness ==
    /\ num_workers = 2 /\ cpc = "reported"
    /\ file_list = <<"long1", "long2">>
    /\ \A w \in Workers : TasksSentTo(w) = 1 /\ Len(ReceivedFrom(w)) >= 3
    /\ global_histogram.count = 2
    /\ \E e \in 1..2 : /\ global_histogram.items[e].word = LongPrefix
                       /\ global_histogram.items[e].frequency = 3

\* ----------------------------------------------------------------------- C17
\* C17: the histogram invariant.  In every reachable state the histogram of
\* each file, each worker's local histogram, the received histogram and the
\* global histogram have pairwise distinct words, frequencies of 1 or more
\* and count <= capacity; and the count of a local or global histogram, and
\* of a histogram under any sequence of add_word_to_histogram and
\* merge_histograms calls, never decreases while the histogram is in use.
\* Of the received histogram the entries received so far are meant: the
\* others are not initialized yet.
ValidEntries(items) ==
    \A i \in DOMAIN items :
       /\ items[i].frequency >= 1
       /\ \A j \in DOMAIN items : items[j].word = items[i].word => i = j

ValidHistogram(hist) ==
    /\ hist.count = Len(hist.items)
    /\ hist.count <= hist.capacity
    /\ ValidEntries(hist.items)

C17_State ==
    /\ \A p \in DOMAIN Disk : ValidHistogram(FileHistogram[p])
    /\ \A w \in Workers : ValidHistogram(local_histogram[w])
    /\ ValidHistogram(global_histogram)
    /\ received_hist.count <= received_hist.capacity
    /\ Len(received_hist.items) <= received_hist.count
    /\ ValidEntries(SubSeq(received_hist.items, 1,
                           Len(received_hist.items) - (IF cpc = "recvFreq" THEN 1 ELSE 0)))
    /\ (fn_out # <<>> /\ fn_out.kind = "calls") => ValidHistogram(fn_out.hist)

C17_Step ==
    /\ cpc' # "done" => global_histogram'.count >= global_histogram.count
    /\ \A w \in Workers :
          wpc'[w] # "exited" => local_histogram'[w].count >= local_histogram[w].count
    /\ (fn_out # <<>> /\ fn_out.kind = "calls")
          => /\ fn_out'.hist.count >= fn_out.hist.count
             /\ fn_out'.hist.capacity >= fn_out.hist.capacity

C17_HistogramInvariant == [](C17_State) /\ [][C17_Step]_vars

\* A histogram that has outgrown its initial capacity after a merge, with a
\* word counted twice.
C17_Witness ==
    /\ fn_out # <<>> /\ fn_out.kind = "calls"
    /\ fn_out.merged
    /\ fn_out.hist.count > INITIAL_HIST_CAPACITY
    /\ fn_out.hist.capacity = 2 * INITIAL_HIST_CAPACITY
    /\ fn_out.hist.items[1].frequency >= 2

\* ----------------------------------------------------------------------- C18
\* C18: rank 0 sends the termination signal only when the cursor
\* next_file_idx has reached total_files; so in its history no task send
\* follows a send of the termination signal.
C18_State ==
    /\ (\E k \in DOMAIN clog : IsTerminateSend(clog[k])) => next_file_idx = total_files
    /\ \A j, k \in DOMAIN clog :
          (IsTerminateSend(clog[j]) /\ IsTaskSend(clog[k])) => k < j

C18_Step ==
    (Len(clog') > Len(clog) /\ IsTerminateSend(clog'[Len(clog')]))
        => next_file_idx = total_files /\ next_file_idx' = total_files

C18_TerminateOnlyWhenNoTaskLeft == [](C18_State) /\ [][C18_Step]_vars

\* Both workers have been sent the termination signal after three tasks.
C18_Witness ==
    /\ num_workers = 2 /\ total_files = 3
    /\ \A w \in Workers : \E k \in DOMAIN clog : IsTerminateSend(clog[k]) /\ clog[k].peer = w
    /\ Cardinality({k \in DOMAIN clog : IsTaskSend(clog[k])}) = 3

\* ----------------------------------------------------------------------- C19
\* C19: rank 0 sends each worker the termination signal at most once and
\* sends a worker nothing after it; a worker that has taken the termination
\* signal has no message waiting, so none is left for a worker that has
\* exited.
TerminatesSentTo(w) ==
    Cardinality({k \in DOMAIN clog : IsTerminateSend(clog[k]) /\ clog[k].peer = w})

C19_State ==
    \A w \in Workers :
       /\ TerminatesSentTo(w) <= 1
       /\ \A k \in DOMAIN SendsTo(w) :
             IsTerminateSend(SendsTo(w)[k]) => k = Len(SendsTo(w))
       /\ wpc[w] # "recv" => /\ toWorker[w] = <<>>
                             /\ TerminatesSentTo(w) = 1
       /\ Len(toWorker[w]) + Cardinality({k \in DOMAIN wlog[w] : wlog[w][k].op = "recv"})
             = Len(SendsTo(w))

\* A step of rank 0 that sends to a worker finds no termination signal sent
\* to that worker before.
C19_Step ==
    \A k \in (Len(clog) + 1)..Len(clog') :
       clog'[k].op = "send" => TerminatesSentTo(clog'[k].peer) = 0

C19_OneTerminateNothingAfter == [](C19_State) /\ [][C19_Step]_vars

\* Two workers have exited, one ended in the priming loop and one after a
\* task.
C19_Witness ==
    /\ num_workers = 2 /\ total_files = 1
    /\ \A w \in Workers : wpc[w] = "exited" /\ TerminatesSentTo(w) = 1
    /\ Len(SendsTo(1)) = 2 /\ Len(SendsTo(2)) = 1

\* ----------------------------------------------------------------------- C20
\* C20: the loader keeps to MAX_FILES for every length of filelist.txt: it
\* stores at most MAX_FILES paths, fgets never reads a line into a slot of
\* index MAX_FILES or more, also when the file has more than MAX_FILES
\* non-blank lines, and blank lines take no slot: the paths stored are the
\* first non-blank lines, without their line ends.
NonBlank(lines) == LET Stays(l) == StripLineEnd(l) # <<>> IN SelectSeq(lines, Stays)

C20_LoaderRespectsBound ==
    LET seen == NonBlank(SubSeq(fn_in, 1, fn_out.pos))
    IN  /\ fn_out.kind # "undefined"
        /\ fn_out.total_files <= MAX_FILES
        /\ fn_out.max_slot < MAX_FILES
        /\ fn_out.total_files = Len(fn_out.file_list)
        /\ fn_out.total_files = (IF Len(seen) < MAX_FILES THEN Len(seen) ELSE MAX_FILES)
        /\ \A i \in DOMAIN fn_out.file_list : fn_out.file_list[i] = StripLineEnd(seen[i])

====
